---- MODULE Spec2Model ----
(***************************************************************************)
(* A model of the emergency-dispatch transcriber (src/main.py): the        *)
(* watchdog observer thread dispatches Created / Moved events, one at a    *)
(* time, to AudioFileEventHandler; a handler posts a DEBUG message, checks *)
(* the suffix, (on_created only) polls the file size until two consecutive *)
(* samples agree, transcribes with retry, and posts the transcription.     *)
(* The main thread sleeps until it is interrupted, then stops and joins    *)
(* the observer.                                                           *)
(* The file system, the speech-to-text engine and the webhook are the      *)
(* environment: each stat, engine call and HTTP post draws its outcome     *)
(* from a small set.                                                       *)
(***************************************************************************)
EXTENDS Integers, Sequences, FiniteSets, TLC

\* ------------------------------------------------------------- bounds
\* events the file-system watch delivers in one run
MaxEvents == 2
\* stat() calls one stability wait may make before the writer must be done
MaxPolls == 3
\* largest file size (in chunks) a stat() reports
MaxSize == 1

\* ------------------------------------------------- program constants
\* main.py:30  file_size = -1
InitialFileSize == -1
\* main.py:76  if attempt > 3
MaxRetries == 3

\* main.py:135, 142  file.suffix == ".mp3"
Mp3Suffix == <<".", "m", "p", "3">>
\* main.py:133
DebugCreated == "DEBUG: New audio file created."
\* main.py:140
DebugMoved == "DEBUG: Audio file moved."

\* ------------------------------------------------------------- inputs
\* File names (the final path component, one character per element).
NameMp3 == <<"a", ".", "m", "p", "3">>
NameOther == <<"b", ".", "m", "p", "3">>
NameTxt == <<"a", ".", "t", "x", "t">>
NameHidden == <<".", "m", "p", "3">>
NamePart == <<"a", ".", "p", "a", "r", "t">>
Paths == {NameMp3, NameOther, NameTxt, NameHidden}
SrcPaths == {NamePart}

\* watchdog FileCreatedEvent / FileMovedEvent: event_type, src_path, dest_path
CreatedEvents == [event_type : {"created"}, src_path : Paths, dest_path : {<<>>}]
MovedEvents == [event_type : {"moved"}, src_path : SrcPaths, dest_path : Paths]
Events == CreatedEvents \cup MovedEvents
NoEvent == [event_type |-> "none", src_path |-> <<>>, dest_path |-> <<>>]

\* What the Whisper model yields for one call: the texts of its segments.
SegmentLists == {<<"a">>, <<"b", "c">>}
EngineFailure == "EngineFailure"
EngineOutcomes == {[ok |-> TRUE, segments |-> s] : s \in SegmentLists}
                    \cup {[ok |-> FALSE, segments |-> <<>>]}

\* file_path.stat(): a size, or FileNotFoundError
Sizes == 0..MaxSize

\* ------------------------------------------------------ pure functions
RECURSIVE LastDot(_, _)
\* str.rfind('.') over name[1..i]; 0 when there is none
LastDot(name, i) ==
    IF i = 0 THEN 0
    ELSE IF name[i] = "." THEN i ELSE LastDot(name, i - 1)

\* pathlib PurePath.suffix: the part of the name from its last dot, unless
\* that dot is the first or the last character
Suffix(name) ==
    LET i == LastDot(name, Len(name))
    IN  IF 1 < i /\ i < Len(name) THEN SubSeq(name, i, Len(name)) ELSE <<>>


RECURSIVE JoinWithSpace(_)
\* A join that puts a space between the segments (" ".join).
JoinWithSpace(segments) ==
    IF segments = <<>> THEN ""
    ELSE IF Tail(segments) = <<>> THEN Head(segments)
    ELSE Head(segments) \o " " \o JoinWithSpace(Tail(segments))

RECURSIVE Join(_)
\* main.py:66  "".join(segment.text for segment in segments)
Join(segments) ==
    IF segments = <<>> THEN "" ELSE Head(segments) \o Join(Tail(segments))

\* A wait that takes "not grown" for "unchanged".
SizeNotGrown(current, previous) == current <= previous

\* main.py:33  current_size == file_size
SizeUnchanged(current, previous) == current = previous

\* A retry loop that never gives up.
RetriesNeverExhausted(a) == FALSE

\* A retry loop that gives up one retry early.
RetriesExhaustedEarly(a) == a >= MaxRetries - 1

\* main.py:76  attempt > 3
RetriesExhausted(a) == a > MaxRetries

\* main.py:134 / 141: the path a handler works on
TargetPath(e) == IF e.event_type = "created" THEN e.src_path ELSE e.dest_path

\* An extension check on the end of the name (str.endswith), which takes the
\* hidden file ".mp3" for an audio file.
AcceptedByNameEnd(e) ==
    LET name == TargetPath(e)
    IN  /\ Len(name) >= Len(Mp3Suffix)
        /\ SubSeq(name, Len(name) - Len(Mp3Suffix) + 1, Len(name)) = Mp3Suffix

\* main.py:134-135 / 141-142: file.suffix == ".mp3"
Accepted(e) == Suffix(TargetPath(e)) = Mp3Suffix

\* A handler that never waits for the write to complete.
FirstStepNoWait(event_type) == "process"

\* main.py:136-137 / 143: on_created waits for the write to complete and then
\* processes the file, on_moved processes it at once
FirstStep(event_type) == IF event_type = "created" THEN "wait" ELSE "process"

\* ----------------------------------------------------------------- state
VARIABLES
    main_pc,         \* the main thread: "run" | "join" | "exited"
    observer,        \* the observer (dispatch) thread:
                     \* "running" | "crashed" | "stopped"
    event_queue,     \* events emitted by the watch, not yet dispatched
    delivered,       \* number of events emitted so far
    pc,              \* where the dispatch thread is
    event,           \* the event being handled
    file_size,       \* wait_for_file_write_completion: file_size
    samples,         \* sizes returned by stat() in the current wait
    sleeps,          \* time.sleep(check_interval) calls in the current wait
    attempt,         \* transcribe: attempt
    engine_log,      \* outcomes of _transcribe in the current transcribe call
    pauses,          \* time.sleep(1) calls in the current transcribe call
    transcription,   \* _process_file: transcription
    transcribe_calls,\* calls of transcriber.transcribe by the current handler
    sent,            \* requests.post calls made by the current handler
    exc,             \* the exception propagating out of the handler, if any
    handled          \* log of the handlers that have ended

vars == <<main_pc, observer, event_queue, delivered, pc, event, file_size,
          samples, sleeps, attempt, engine_log, pauses, transcription,
          transcribe_calls, sent, exc, handled>>

locals == <<file_size, samples, sleeps, attempt, engine_log, pauses,
            transcription, transcribe_calls, sent, exc>>

NoText == "<none>"
NoException == "none"

Init ==
    /\ main_pc = "run"
    /\ observer = "running"
    /\ event_queue = <<>>
    /\ delivered = 0
    /\ pc = "idle"
    /\ event = NoEvent
    /\ file_size = InitialFileSize
    /\ samples = <<>>
    /\ sleeps = 0
    /\ attempt = 0
    /\ engine_log = <<>>
    /\ pauses = 0
    /\ transcription = NoText
    /\ transcribe_calls = 0
    /\ sent = <<>>
    /\ exc = NoException
    /\ handled = <<>>

\* ------------------------------------------------------------ environment
\* The emitter thread of the observer queues an event of the watched tree
\* (it may still do so while observer.stop() is tearing the watch down).
Deliver ==
    /\ delivered < MaxEvents
    /\ \E e \in Events : event_queue' = Append(event_queue, e)
    /\ delivered' = delivered + 1
    /\ UNCHANGED <<main_pc, observer, pc, event, locals, handled>>

\* A dispatcher that hands an event to its handler as soon as it is queued,
\* whether or not the handler of the event before it has ended.
DispatchWhileBusy ==
    /\ observer = "running"
    /\ main_pc = "run"
    /\ pc # "dead"
    /\ event_queue # <<>>
    /\ event' = Head(event_queue)
    /\ event_queue' = Tail(event_queue)
    /\ pc' = IF Head(event_queue).event_type = "created"
             THEN "on_created" ELSE "on_moved"
    /\ UNCHANGED <<main_pc, observer, delivered, locals, handled>>

\* A dispatcher that takes the newest queued event first.
DispatchLast ==
    /\ observer = "running"
    /\ main_pc = "run"
    /\ pc = "idle"
    /\ event_queue # <<>>
    /\ event' = event_queue[Len(event_queue)]
    /\ event_queue' = SubSeq(event_queue, 1, Len(event_queue) - 1)
    /\ pc' = IF event_queue[Len(event_queue)].event_type = "created"
             THEN "on_created" ELSE "on_moved"
    /\ UNCHANGED <<main_pc, observer, delivered, locals, handled>>

\* ------------------------------------------------- observer thread (main.py:157-158)
\* watchdog's dispatch loop takes the next event and calls the handler
\* method of its type: on_created or on_moved.
Dispatch ==
    /\ observer = "running"
    /\ main_pc = "run"
    /\ pc = "idle"
    /\ event_queue # <<>>
    /\ event' = Head(event_queue)
    /\ event_queue' = Tail(event_queue)
    /\ pc' = IF Head(event_queue).event_type = "created"
             THEN "on_created" ELSE "on_moved"
    /\ UNCHANGED <<main_pc, observer, delivered, locals, handled>>

\* One requests.post of send_message (main.py:89-91), as the handler logs it.
Posted(kind, message, ok) == [kind |-> kind, content |-> message, ok |-> ok]

\* A handler that goes on when the webhook refuses its DEBUG message.
on_created_ignore_status ==
    /\ pc = "on_created"
    /\ \E ok \in BOOLEAN :
        /\ sent' = Append(sent, Posted("debug", DebugCreated, ok))
        /\ exc' = exc
        /\ pc' = IF Accepted(event) THEN FirstStep("created") ELSE "return"
    /\ file_size' = InitialFileSize
    /\ UNCHANGED <<main_pc, observer, event_queue, delivered, event, samples,
                   sleeps, attempt, engine_log, pauses, transcription,
                   transcribe_calls, handled>>

\* main.py:133-137: the DEBUG post, then the suffix check
on_created ==
    /\ pc = "on_created"
    /\ \E ok \in BOOLEAN :
        /\ sent' = Append(sent, Posted("debug", DebugCreated, ok))
        /\ IF ~ok
           THEN /\ exc' = "HTTPError"
                /\ pc' = "raise"
           ELSE /\ exc' = exc
                /\ pc' = IF Accepted(event)
                         THEN FirstStep("created") ELSE "return"
    /\ file_size' = InitialFileSize
    /\ UNCHANGED <<main_pc, observer, event_queue, delivered, event, samples, sleeps,
                   attempt, engine_log, pauses, transcription,
                   transcribe_calls, handled>>

\* main.py:140-143: the DEBUG post, then the suffix check; no stability wait
on_moved ==
    /\ pc = "on_moved"
    /\ \E ok \in BOOLEAN :
        /\ sent' = Append(sent, Posted("debug", DebugMoved, ok))
        /\ IF ~ok
           THEN /\ exc' = "HTTPError"
                /\ pc' = "raise"
           ELSE /\ exc' = exc
                /\ pc' = IF Accepted(event)
                         THEN FirstStep("moved") ELSE "return"
    /\ UNCHANGED <<main_pc, observer, event_queue, delivered, event, file_size, samples,
                   sleeps, attempt, engine_log, pauses, transcription,
                   transcribe_calls, handled>>

\* A wait that catches the stat failure and returns as if the file were stable.
wait_stat_gone_swallowed ==
    /\ pc = "wait"
    /\ exc' = "FileNotFoundError"
    /\ pc' = "process"
    /\ UNCHANGED <<main_pc, observer, event_queue, delivered, event, file_size, samples,
                   sleeps, attempt, engine_log, pauses, transcription,
                   transcribe_calls, sent, handled>>

\* main.py:32: file_path.stat() when the file is gone: FileNotFoundError,
\* which nothing in wait_for_file_write_completion or on_created catches
wait_stat_gone ==
    /\ pc = "wait"
    /\ exc' = "FileNotFoundError"
    /\ pc' = "raise"
    /\ UNCHANGED <<main_pc, observer, event_queue, delivered, event, file_size, samples,
                   sleeps, attempt, engine_log, pauses, transcription,
                   transcribe_calls, sent, handled>>

\* main.py:32-36: one stat() of the loop of wait_for_file_write_completion
\* that returns a size. The file may have any size; the writer is done by
\* the MaxPolls-th sample.
wait_stat ==
    /\ pc = "wait"
    /\ \E current_size \in Sizes :
        /\ SizeUnchanged(current_size, file_size)
             \/ Len(samples) + 1 < MaxPolls
        /\ samples' = Append(samples, current_size)
        /\ IF SizeUnchanged(current_size, file_size)
           THEN /\ pc' = "process"
                /\ UNCHANGED file_size
           ELSE /\ pc' = "sleep"
                /\ file_size' = current_size
    /\ UNCHANGED <<main_pc, observer, event_queue, delivered, event, sleeps, attempt,
                   engine_log, pauses, transcription, transcribe_calls, sent,
                   exc, handled>>

\* main.py:37: time.sleep(check_interval), then back to the top of the loop
wait_sleep ==
    /\ pc = "sleep"
    /\ sleeps' = sleeps + 1
    /\ pc' = "wait"
    /\ UNCHANGED <<main_pc, observer, event_queue, delivered, event, file_size, samples,
                   attempt, engine_log, pauses, transcription,
                   transcribe_calls, sent, exc, handled>>

\* main.py:123-127 and 69: _process_file calls transcriber.transcribe
process_file ==
    /\ pc = "process"
    /\ transcribe_calls' = transcribe_calls + 1
    /\ attempt' = 0
    /\ pc' = "engine"
    /\ UNCHANGED <<main_pc, observer, event_queue, delivered, event, file_size, samples,
                   sleeps, engine_log, pauses, transcription, sent, exc,
                   handled>>

\* A retry loop that, out of retries, gives the text it has (none) to the
\* caller instead of raising.
transcribe_swallow ==
    /\ pc = "engine"
    /\ \E r \in EngineOutcomes :
        /\ engine_log' = Append(engine_log, r)
        /\ IF r.ok
           THEN /\ transcription' = Join(r.segments)
                /\ pc' = "pause"
                /\ UNCHANGED <<attempt, exc>>
           ELSE IF RetriesExhausted(attempt)
           THEN /\ pc' = "pause"
                /\ UNCHANGED <<attempt, exc, transcription>>
           ELSE /\ attempt' = attempt + 1
                /\ UNCHANGED <<pc, exc, transcription>>
    /\ UNCHANGED <<main_pc, observer, event_queue, delivered, event, file_size,
                   samples, sleeps, pauses, transcribe_calls, sent, handled>>

\* main.py:70-78: one turn of the retry loop of transcribe
transcribe ==
    /\ pc = "engine"
    /\ \E r \in EngineOutcomes :
        /\ engine_log' = Append(engine_log, r)
        /\ IF r.ok
           THEN /\ transcription' = Join(r.segments)
                /\ pc' = "pause"
                /\ UNCHANGED <<attempt, exc>>
           ELSE IF RetriesExhausted(attempt)
           THEN /\ exc' = EngineFailure
                /\ pc' = "raise"
                /\ UNCHANGED <<attempt, transcription>>
           ELSE /\ attempt' = attempt + 1
                /\ UNCHANGED <<pc, exc, transcription>>
    /\ UNCHANGED <<main_pc, observer, event_queue, delivered, event, file_size, samples,
                   sleeps, pauses, transcribe_calls, sent, handled>>

\* main.py:73-74: time.sleep(1), then return transcription
transcribe_return ==
    /\ pc = "pause"
    /\ pauses' = pauses + 1
    /\ pc' = "send"
    /\ UNCHANGED <<main_pc, observer, event_queue, delivered, event, file_size, samples,
                   sleeps, attempt, engine_log, transcription,
                   transcribe_calls, sent, exc, handled>>

\* A sender that posts again when the webhook refuses the transcription.
send_transcription_retry ==
    /\ pc = "send"
    /\ \E ok \in BOOLEAN :
        /\ sent' = Append(sent, Posted("transcription", transcription, ok))
        /\ pc' = IF ok THEN "return" ELSE "send"
        /\ exc' = exc
    /\ UNCHANGED <<main_pc, observer, event_queue, delivered, event, file_size,
                   samples, sleeps, attempt, engine_log, pauses, transcription,
                   transcribe_calls, handled>>

\* main.py:129-130: send_message(transcription)
send_transcription ==
    /\ pc = "send"
    /\ \E ok \in BOOLEAN :
        /\ sent' = Append(sent, Posted("transcription", transcription, ok))
        /\ IF ok
           THEN /\ pc' = "return"
                /\ exc' = exc
           ELSE /\ pc' = "raise"
                /\ exc' = "HTTPError"
    /\ UNCHANGED <<main_pc, observer, event_queue, delivered, event, file_size, samples,
                   sleeps, attempt, engine_log, pauses, transcription,
                   transcribe_calls, handled>>

\* What the log keeps of a handler that has ended.
Record ==
    [event |-> event, exc |-> exc, transcribe_calls |-> transcribe_calls,
     sent |-> sent]

ResetLocals ==
    /\ event' = NoEvent
    /\ file_size' = InitialFileSize
    /\ samples' = <<>>
    /\ sleeps' = 0
    /\ attempt' = 0
    /\ engine_log' = <<>>
    /\ pauses' = 0
    /\ transcription' = NoText
    /\ transcribe_calls' = 0
    /\ sent' = <<>>
    /\ exc' = NoException

\* The handler returned: the dispatch loop goes on to the next event.
handler_returns ==
    /\ pc = "return"
    /\ handled' = Append(handled, Record)
    /\ pc' = "idle"
    /\ ResetLocals
    /\ UNCHANGED <<main_pc, observer, event_queue, delivered>>

\* The handler raised: neither on_created / on_moved (main.py:132-143) nor
\* the dispatch loop that called them catches it, so the observer thread
\* ends; the main thread (main.py:160-161) keeps sleeping.
handler_raises ==
    /\ pc = "raise"
    /\ handled' = Append(handled, Record)
    /\ observer' = "crashed"
    /\ pc' = "dead"
    /\ ResetLocals
    /\ UNCHANGED <<main_pc, event_queue, delivered>>

\* main.py:160-164: KeyboardInterrupt ends the sleep loop of the main thread,
\* which calls observer.stop(): the observer thread is told to stop.
interrupt ==
    /\ main_pc = "run"
    /\ main_pc' = "join"
    /\ UNCHANGED <<observer, event_queue, delivered, pc, event, locals,
                   handled>>

\* The observer thread, between two events, sees that it was told to stop
\* and ends; events still queued are dropped.
observer_stops ==
    /\ observer = "running"
    /\ main_pc # "run"
    /\ pc = "idle"
    /\ observer' = "stopped"
    /\ pc' = "dead"
    /\ UNCHANGED <<main_pc, event_queue, delivered, event, locals, handled>>

\* A shutdown that does not wait for the observer thread (no observer.join()).
exit_without_join ==
    /\ main_pc = "join"
    /\ main_pc' = "exited"
    /\ UNCHANGED <<observer, event_queue, delivered, pc, event, locals,
                   handled>>

\* main.py:165: observer.join() returns once the observer thread has ended,
\* and the process exits.
join_returns ==
    /\ main_pc = "join"
    /\ observer # "running"
    /\ main_pc' = "exited"
    /\ UNCHANGED <<observer, event_queue, delivered, pc, event, locals,
                   handled>>

Next ==
    \/ Deliver
    \/ Dispatch
    \/ on_created
    \/ on_moved
    \/ wait_stat_gone
    \/ wait_stat
    \/ wait_sleep
    \/ process_file
    \/ transcribe
    \/ transcribe_return
    \/ send_transcription
    \/ handler_returns
    \/ handler_raises
    \/ interrupt
    \/ observer_stops
    \/ join_returns

Spec == Init /\ [][Next]_vars

\* The program with every engine invocation and the pause after it coming
\* to an end: the observer thread, once in transcribe, keeps running.
SpecFair ==
    /\ Init
    /\ [][Next]_vars
    /\ WF_vars(transcribe)
    /\ WF_vars(transcribe_return)

\* ------------------------------------- a file that never stops changing
\* A wait with a maximum number of polls: it returns after MaxPolls samples
\* whether or not the size has settled.
grow_stat_max_wait ==
    /\ pc = "wait"
    /\ \E current_size \in Sizes \ {file_size} :
        LET all == Append(samples, current_size)
        IN  /\ samples' = IF Len(all) > MaxPolls THEN Tail(all) ELSE all
            /\ IF SizeUnchanged(current_size, file_size)
                  \/ Len(all) >= MaxPolls
               THEN /\ pc' = "process"
                    /\ UNCHANGED file_size
               ELSE /\ pc' = "sleep"
                    /\ file_size' = current_size
    /\ UNCHANGED <<main_pc, observer, event_queue, delivered, event, sleeps,
                   attempt, engine_log, pauses, transcription,
                   transcribe_calls, sent, exc, handled>>

\* main.py:32-36: one stat() of the loop of wait_for_file_write_completion
\* on a file whose size is different at every sample. The loop has no
\* counter; samples keeps the last MaxPolls sizes only.
grow_stat ==
    /\ pc = "wait"
    /\ \E current_size \in Sizes \ {file_size} :
        LET all == Append(samples, current_size)
        IN  /\ samples' = IF Len(all) > MaxPolls THEN Tail(all) ELSE all
            /\ IF SizeUnchanged(current_size, file_size)
               THEN /\ pc' = "process"
                    /\ UNCHANGED file_size
               ELSE /\ pc' = "sleep"
                    /\ file_size' = current_size
    /\ UNCHANGED <<main_pc, observer, event_queue, delivered, event, sleeps,
                   attempt, engine_log, pauses, transcription,
                   transcribe_calls, sent, exc, handled>>

\* main.py:37: time.sleep(check_interval); sleeps counts up to MaxPolls
grow_sleep ==
    /\ pc = "sleep"
    /\ sleeps' = IF sleeps < MaxPolls THEN sleeps + 1 ELSE sleeps
    /\ pc' = "wait"
    /\ UNCHANGED <<main_pc, observer, event_queue, delivered, event, file_size,
                   samples, attempt, engine_log, pauses, transcription,
                   transcribe_calls, sent, exc, handled>>

\* The program with every watched file changing between any two samples.
NextGrowing ==
    \/ Deliver
    \/ Dispatch
    \/ on_created
    \/ on_moved
    \/ grow_stat
    \/ grow_sleep
    \/ process_file
    \/ transcribe
    \/ transcribe_return
    \/ send_transcription
    \/ handler_returns
    \/ handler_raises
    \/ interrupt
    \/ observer_stops
    \/ join_returns

SpecGrowing == Init /\ [][NextGrowing]_vars

\* ------------------------------------------------------------- typing
TypeOK ==
    /\ main_pc \in {"run", "join", "exited"}
    /\ observer \in {"running", "crashed", "stopped"}
    /\ delivered \in 0..MaxEvents
    /\ pc \in {"idle", "on_created", "on_moved", "wait", "sleep", "process",
               "engine", "pause", "send", "return", "raise", "dead"}
    /\ event \in Events \cup {NoEvent}
    /\ file_size \in Sizes \cup {InitialFileSize}
    /\ sleeps \in 0..MaxPolls
    /\ attempt \in 0..(MaxRetries + 1)
    /\ Len(handled) <= MaxEvents

\* ================================================================ claims
\* The path has the recognized audio extension.
Recognized(path) == Suffix(path) = Mp3Suffix

\* Number of transcription notifications the webhook accepted.
Delivered(posts) ==
    Cardinality({i \in DOMAIN posts :
                    posts[i].kind = "transcription" /\ posts[i].ok})

NoTranscriptionPost(posts) ==
    \A i \in DOMAIN posts : posts[i].kind # "transcription"

AllFailed(log, n) == \A i \in 1..n : ~log[i].ok

AdjacentDiffer(s, n) == \A i \in 2..n : s[i] # s[i - 1]

\* ---------------------------------------------------------------- C1
\* C1 (as claimed): a Created event for an audio path followed by a Moved
\* event to that same path, both handled without error, makes exactly one
\* transcribe call and exactly one delivered transcription notification.
C1_ExactlyOnce ==
    \A i \in 1..(Len(handled) - 1) :
        LET c == handled[i]
            m == handled[i + 1]
        IN  ( /\ c.event.event_type = "created"
              /\ m.event.event_type = "moved"
              /\ m.event.dest_path = c.event.src_path
              /\ Recognized(c.event.src_path)
              /\ c.exc = NoException
              /\ m.exc = NoException )
            => /\ c.transcribe_calls + m.transcribe_calls = 1
               /\ Delivered(c.sent) + Delivered(m.sent) = 1

\* ---------------------------------------------------------------- C2
\* C2 (as claimed): one transcribe call never invokes the engine a 5th time,
\* and when it raises the engine's failure it has invoked it exactly 4 times.
C2_FourAttempts ==
    /\ Len(engine_log) <= 4
    /\ (pc = "raise" /\ exc = EngineFailure) => Len(engine_log) = 4

\* ---------------------------------------------------------------- C3
\* C3: for k in 1..4, after k-1 failed attempts transcribe has not given up
\* (it is about to make attempt k), and when attempt k succeeds after k-1
\* failures no further attempt is made, no error is raised by transcribe and
\* the transcription is the joined text of attempt k.
C3_ReturnsAttemptK ==
    LET k == Len(engine_log)
    IN  /\ (k \in 1..3 /\ AllFailed(engine_log, k))
            => (pc = "engine" /\ exc = NoException /\ attempt = k)
        /\ (k \in 1..4 /\ engine_log[k].ok)
            => /\ AllFailed(engine_log, k - 1)
               /\ transcription = Join(engine_log[k].segments)
               /\ exc # EngineFailure
               /\ pc \in {"pause", "send", "return", "raise"}
               /\ pc = "raise" => exc = "HTTPError"

\* The engine failed three times and succeeded on the 4th attempt, and
\* transcribe has returned that text.
C3_Witness ==
    /\ pc = "send"
    /\ Len(engine_log) = 4
    /\ AllFailed(engine_log, 3)
    /\ engine_log[4].ok
    /\ transcription = "bc"

\* ---------------------------------------------------------------- C4
\* C4 (as claimed): handling an event whose path lacks the audio extension
\* makes no transcribe call and no post of any kind.
C4_NoCallOfAnyKind ==
    (event # NoEvent /\ ~Recognized(TargetPath(event)))
        => (transcribe_calls = 0 /\ sent = <<>>)

\* C4 (amended): handling an event whose path lacks the audio extension makes
\* no stat, no transcribe call, no engine call and no transcription post; the
\* only post is the one DEBUG status message sent before the extension check.
C4_OnlyDebugPost ==
    /\ (event # NoEvent /\ ~Recognized(TargetPath(event)))
        => /\ pc \in {"on_created", "on_moved", "return", "raise"}
           /\ transcribe_calls = 0
           /\ samples = <<>>
           /\ engine_log = <<>>
           /\ Len(sent) <= 1
           /\ pc \in {"return", "raise"} => Len(sent) = 1
           /\ \A i \in DOMAIN sent : sent[i].kind = "debug"
    /\ \A j \in DOMAIN handled :
        ~Recognized(TargetPath(handled[j].event))
            => /\ handled[j].transcribe_calls = 0
               /\ Len(handled[j].sent) = 1
               /\ handled[j].sent[1].kind = "debug"

\* A Moved event to the hidden file ".mp3" (no suffix) has been handled to
\* its end: the handler returns after its DEBUG post.
C4_Witness ==
    /\ pc = "return"
    /\ event.event_type = "moved"
    /\ TargetPath(event) = NameHidden
    /\ sent = <<Posted("debug", DebugMoved, TRUE)>>

\* ---------------------------------------------------------------- C5
\* C5 (as claimed): a handler that ended in the terminal engine failure has
\* posted a failure message and no transcription.
C5_FailureReported ==
    \A j \in DOMAIN handled :
        handled[j].exc = EngineFailure
            => /\ \E i \in DOMAIN handled[j].sent :
                    handled[j].sent[i].kind = "failure"
               /\ NoTranscriptionPost(handled[j].sent)

\* ---------------------------------------------------------------- C6
\* C6 (as claimed): after a handler has failed, the observer thread that
\* dispatches the events is still running.
C6_WatcherSurvives ==
    (\E j \in DOMAIN handled : handled[j].exc # NoException)
        => observer = "running"

\* ---------------------------------------------------------------- C7
\* C7 (as claimed): when the post of the transcription is refused, it is not
\* posted again, no error leaves the handler and the handler returns.
C7_DeliveryFailureContained ==
    ( /\ sent # <<>>
      /\ sent[Len(sent)].kind = "transcription"
      /\ ~sent[Len(sent)].ok )
        => /\ Cardinality({i \in DOMAIN sent :
                              sent[i].kind = "transcription"}) = 1
           /\ exc = NoException
           /\ pc = "return"

\* ---------------------------------------------------------------- C8
\* C8: once transcribe has been called for a Created event, the stability
\* wait has returned on two consecutive equal samples; once it has been
\* called for a Moved event, no size sample and no poll sleep was taken.
C8_WaitOnlyForCreated ==
    (pc = "process" \/ transcribe_calls > 0)
        => IF event.event_type = "created"
           THEN /\ Len(samples) >= 2
                /\ samples[Len(samples)] = samples[Len(samples) - 1]
           ELSE /\ event.event_type = "moved"
                /\ samples = <<>>
                /\ sleeps = 0

\* A Created event was transcribed after its wait, and now a Moved event is
\* being transcribed with no sample taken.
C8_Witness ==
    /\ Len(handled) = 1
    /\ handled[1].event.event_type = "created"
    /\ handled[1].transcribe_calls = 1
    /\ event.event_type = "moved"
    /\ pc = "engine"
    /\ samples = <<>>

\* ---------------------------------------------------------------- C9
\* C9: the wait returns only at a sample that equals the one before it, the
\* first such sample, after at least two samples and with no sleep after the
\* last one; after every other sample (the first included) it sleeps once
\* and then samples again.
C9_StabilityWait ==
    LET n == Len(samples)
    IN  /\ pc = "wait" => (sleeps = n /\ AdjacentDiffer(samples, n))
        /\ pc = "sleep"
            => (n >= 1 /\ sleeps = n - 1 /\ AdjacentDiffer(samples, n))
        /\ (pc = "process" /\ event.event_type = "created")
            => /\ n >= 2
               /\ samples[n] = samples[n - 1]
               /\ AdjacentDiffer(samples, n - 1)
               /\ sleeps = n - 1

\* The size changed between the first two samples and the wait returned at
\* the third, after two sleeps.
C9_Witness ==
    /\ pc = "process"
    /\ event.event_type = "created"
    /\ samples = <<0, 1, 1>>
    /\ sleeps = 2

\* ---------------------------------------------------------------- C10
\* C10: a stat failure leaves the wait and the handler as an exception, and
\* the handler it ends has called transcribe and the engine not at all and
\* has posted no transcription.
C10_StatFailurePropagates ==
    /\ exc = "FileNotFoundError"
        => /\ pc = "raise"
           /\ transcribe_calls = 0
           /\ engine_log = <<>>
           /\ NoTranscriptionPost(sent)
    /\ \A j \in DOMAIN handled :
        handled[j].exc = "FileNotFoundError"
            => /\ handled[j].transcribe_calls = 0
               /\ NoTranscriptionPost(handled[j].sent)

\* The file vanished after its first sample: the handler is raising.
C10_Witness ==
    /\ pc = "raise"
    /\ exc = "FileNotFoundError"
    /\ Len(samples) = 1
    /\ sleeps = 1

\* ---------------------------------------------------------------- C11
\* Events whose handling has begun and has not ended.
InFlightCount == (delivered - Len(event_queue)) - Len(handled)

\* The handler is in one of the stages PendingStability, Transcribing or
\* Notifying (or in its DEBUG post before them).
InStage ==
    pc \in {"on_created", "on_moved", "wait", "sleep", "process", "engine",
            "pause", "send", "return", "raise"}

\* C11: at most one event is in flight at any time, hence at most one per
\* path: an event leaves the queue only when no handler is in a stage, and
\* the one in flight is the event the handler is working on.
C11_OneInFlight ==
    /\ InFlightCount \in {0, 1}
    /\ InFlightCount = 1 <=> event # NoEvent
    /\ event # NoEvent <=> InStage

\* An audio file is being transcribed while a second event for the same
\* path waits in the queue.
C11_Witness ==
    /\ pc = "engine"
    /\ event_queue # <<>>
    /\ Recognized(TargetPath(event))
    /\ TargetPath(Head(event_queue)) = TargetPath(event)

\* ---------------------------------------------------------------- C12
\* The events in the order the watch delivered them: those whose handler has
\* ended, the one being handled, those still queued.
Arrivals ==
    [i \in 1..Len(handled) |-> handled[i].event]
        \o (IF event # NoEvent THEN <<event>> ELSE <<>>)
        \o event_queue

\* C12: events are handled one at a time in delivery order: the order of
\* ended, current and queued events changes only by a new arrival at its
\* end; a handler starts only when none is running and ends only by
\* returning or raising; while a handler is in a stage (a stability wait or
\* a transcription included) no queued event leaves the queue.
C12_SerialInOrder ==
    [][ /\ \/ Arrivals' = Arrivals
           \/ \E e \in Events : Arrivals' = Append(Arrivals, e)
        /\ event' # event
            => \/ event = NoEvent /\ pc = "idle"
               \/ event' = NoEvent /\ pc \in {"return", "raise"}
        /\ (InStage /\ InStage')
            => /\ event' = event
               /\ Len(event_queue') >= Len(event_queue) ]_vars

\* A stability wait is sleeping while a different, later event is queued.
C12_Witness ==
    /\ pc = "sleep"
    /\ Len(event_queue) = 1
    /\ event_queue[1] # event
    /\ handled = <<>>

\* ---------------------------------------------------------------- C13
\* C13: once the main thread has called observer.stop(), no handler starts
\* (queued and newly delivered events stay unhandled); the stop changes
\* nothing of the handler that is running, which ends only by returning or
\* raising; and the process has exited only after that handler has ended
\* and the observer thread with it.
C13_StopDrains ==
    /\ [][ /\ main_pc # "run"
                => \/ event' = event
                   \/ event' = NoEvent /\ pc \in {"return", "raise"}
           /\ (main_pc = "run" /\ main_pc' # "run")
                => UNCHANGED <<pc, event, locals, handled>> ]_vars
    /\ [](main_pc = "exited"
            => (event = NoEvent /\ observer # "running" /\ pc = "dead"))

\* The stop came while an accepted event was being transcribed and another
\* event was queued: the transcription goes on, the main thread waits.
C13_Witness ==
    /\ main_pc = "join"
    /\ observer = "running"
    /\ pc = "engine"
    /\ event_queue # <<>>

\* ---------------------------------------------------------------- C14
\* C14 (as claimed): every engine attempt, failed or successful, is followed
\* by one pause before the next attempt starts or the result is returned.
C14_PauseAfterEveryAttempt ==
    pc \in {"engine", "send"} => pauses = Len(engine_log)

\* ---------------------------------------------------------------- C15
\* C15 (under SpecGrowing): while the size differs between every two
\* consecutive samples the wait does not return, however many samples it
\* has taken: a Created event for an audio file stays in the wait (or has
\* failed at its DEBUG post), and never reaches transcribe, the engine or
\* the transcription post.
C15_NeverReturns ==
    /\ (event.event_type = "created" /\ Recognized(TargetPath(event)))
        => /\ pc \in {"on_created", "wait", "sleep", "raise"}
           /\ pc = "raise" => (exc = "HTTPError" /\ samples = <<>>)
           /\ transcribe_calls = 0
           /\ engine_log = <<>>
           /\ NoTranscriptionPost(sent)
           /\ AdjacentDiffer(samples, Len(samples))
    /\ \A j \in DOMAIN handled :
        ( /\ handled[j].event.event_type = "created"
          /\ Recognized(TargetPath(handled[j].event)) )
            => handled[j].transcribe_calls = 0

\* The wait has slept MaxPolls times or more and is about to sample again.
C15_Witness ==
    /\ event.event_type = "created"
    /\ pc = "wait"
    /\ sleeps = MaxPolls
    /\ Len(samples) = MaxPolls

\* ---------------------------------------------------------------- C16
\* Posts of one kind among the posts of a handler.
PostsOfKind(posts, kind) ==
    Cardinality({i \in DOMAIN posts : posts[i].kind = kind})

\* One handler call: transcribe called at most once, each of its two
\* send_message calls posted at most once, and nothing posted after a post
\* that the webhook refused.
NoRetry(calls, posts) ==
    /\ calls <= 1
    /\ PostsOfKind(posts, "debug") <= 1
    /\ PostsOfKind(posts, "transcription") <= 1
    /\ \A i \in DOMAIN posts : ~posts[i].ok => i = Len(posts)

\* C16: no handler, running or ended, retries a transcribe call or a post.
C16_NoRetryOutsideTranscriber ==
    /\ NoRetry(transcribe_calls, sent)
    /\ \A j \in DOMAIN handled :
        NoRetry(handled[j].transcribe_calls, handled[j].sent)

\* The webhook refused the transcription of a file that took two engine
\* attempts: one transcribe call, one transcription post, the handler raises.
C16_Witness ==
    /\ pc = "raise"
    /\ transcribe_calls = 1
    /\ Len(engine_log) = 2
    /\ Len(sent) = 2
    /\ sent[2].kind = "transcription"
    /\ ~sent[2].ok

\* ---------------------------------------------------------------- C17
RECURSIVE InOrder(_, _)
\* The first n segments, one after the other, with nothing between them.
InOrder(segments, n) ==
    IF n = 0 THEN "" ELSE InOrder(segments, n - 1) \o segments[n]

\* C17: the content of a transcription post is the text transcribe returned,
\* which is the segments of the engine's successful (last) attempt in order
\* with no separator.
C17_ContentIsTranscription ==
    \A i \in DOMAIN sent :
        sent[i].kind = "transcription"
            => LET last == engine_log[Len(engine_log)]
               IN  /\ engine_log # <<>>
                   /\ last.ok
                   /\ sent[i].content = transcription
                   /\ sent[i].content
                        = InOrder(last.segments, Len(last.segments))

\* The engine yielded the segments "b" and "c" and "bc" has been posted.
C17_Witness ==
    /\ pc = "return"
    /\ Len(sent) = 2
    /\ engine_log # <<>>
    /\ engine_log[Len(engine_log)].segments = <<"b", "c">>
    /\ sent[2] = Posted("transcription", "bc", TRUE)

\* ---------------------------------------------------------------- C18
\* The stage a handler is in: 0 its DEBUG post, 1 PendingStability,
\* 2 Transcribing, 3 Notifying, 4 Done, 5 Failed.
StageOf(at) ==
    CASE at \in {"on_created", "on_moved"} -> 0
      [] at \in {"wait", "sleep"} -> 1
      [] at \in {"process", "engine", "pause"} -> 2
      [] at = "send" -> 3
      [] at = "return" -> 4
      [] at = "raise" -> 5
      [] OTHER -> 0 - 1

\* C18: a handler never goes back to an earlier stage; once it has failed
\* it does nothing more (no stat, engine call or post) until it ends; it is
\* in Failed exactly when an exception is leaving it; and a transcription
\* is posted only after the one transcribe call has returned the text of a
\* successful attempt.
C18_StageOrder ==
    /\ [][ /\ (InStage /\ InStage') => StageOf(pc') >= StageOf(pc)
           /\ pc = "raise" => pc' \in {"raise", "dead"}
           /\ (pc = "raise" /\ pc' = "raise") => UNCHANGED <<event, locals>>
        ]_vars
    /\ [](exc # NoException <=> pc = "raise")
    /\ [](\A i \in DOMAIN sent :
            sent[i].kind = "transcription"
                => /\ transcribe_calls = 1
                   /\ pauses = 1
                   /\ engine_log # <<>>
                   /\ engine_log[Len(engine_log)].ok
                   /\ pc \in {"return", "raise"})

\* A Created event went through the wait, the transcription and the post,
\* and its handler is returning.
C18_Witness ==
    /\ pc = "return"
    /\ event.event_type = "created"
    /\ Len(samples) >= 2
    /\ Len(engine_log) >= 2
    /\ Len(sent) = 2
    /\ sent[2].kind = "transcription"

\* ---------------------------------------------------------------- C19
\* The DEBUG message of the handler of event e.
DebugOf(e) == IF e.event_type = "created" THEN DebugCreated ELSE DebugMoved

\* The posts of a handler of event e that is past its first statement: the
\* first is its DEBUG message, and if the webhook refused it, it is the only
\* one, transcribe was not called and HTTPError left the handler.
DebugFirst(e, posts, calls, error) ==
    /\ posts # <<>>
    /\ posts[1].kind = "debug"
    /\ posts[1].content = DebugOf(e)
    /\ ~posts[1].ok => (Len(posts) = 1 /\ calls = 0 /\ error = "HTTPError")

\* C19: every handler posts its DEBUG message before anything else, for any
\* path; when that post is refused the handler raises at once, with no size
\* sample, no transcribe or engine call and no transcription post.
C19_DebugFirst ==
    /\ pc \in {"on_created", "on_moved"}
        => (sent = <<>> /\ samples = <<>> /\ transcribe_calls = 0)
    /\ (InStage /\ pc \notin {"on_created", "on_moved"})
        => /\ DebugFirst(event, sent, transcribe_calls, exc)
           /\ ~sent[1].ok
                => (pc = "raise" /\ samples = <<>> /\ engine_log = <<>>)
    /\ \A j \in DOMAIN handled :
        DebugFirst(handled[j].event, handled[j].sent,
                   handled[j].transcribe_calls, handled[j].exc)

\* The DEBUG post of a Created event for an audio file was refused: the
\* handler raises without having looked at the file.
C19_Witness ==
    /\ pc = "raise"
    /\ event.event_type = "created"
    /\ Recognized(TargetPath(event))
    /\ sent = <<Posted("debug", DebugCreated, FALSE)>>
    /\ samples = <<>>

\* ---------------------------------------------------------------- C20
\* C20 (under SpecFair): a transcribe call that has started ends, by
\* returning a text or by raising the engine's last failure; it makes at
\* most MaxRetries + 2 engine invocations; while it runs, attempt is the
\* number of failed invocations so far, so it only grows, by one per
\* failure, and is never reset.
C20_TranscribeTerminates ==
    /\ (pc = "engine") ~> (pc \in {"send", "raise"})
    /\ [](Len(engine_log) <= MaxRetries + 2)
    /\ [](pc = "engine"
            => (attempt = Len(engine_log) /\ AllFailed(engine_log, attempt)))
    /\ []((pc = "raise" /\ exc = EngineFailure)
            => ~engine_log[Len(engine_log)].ok)
    /\ [][ (pc = "engine" /\ pc' = "engine")
            => (attempt' = attempt \/ attempt' = attempt + 1) ]_vars

\* transcribe is about to invoke the engine for the last time it may.
C20_Witness ==
    /\ pc = "engine"
    /\ attempt = MaxRetries + 1
    /\ Len(engine_log) = MaxRetries + 1

====
